---- MODULE Spec2Model ----
(***************************************************************************)
(* Model of Notero's change-coalescing synchronisation engine              *)
(* (src/content/notion.ts): the debounce queue (enqueueItemsToSync), the   *)
(* sync coordinator (performSync / saveItemsToNotion / saveItemToNotion)   *)
(* and the Notion client (getDatabaseProperties, buildItemProperties,      *)
(* saveItemToDatabase) talking to a remote page store.                     *)
(*                                                                         *)
(* JavaScript is single threaded: every action below is one run-to-        *)
(* completion piece of code between two suspension points (an await on a   *)
(* remote call, or the debounce timer).                                    *)
(***************************************************************************)
EXTENDS Integers, Sequences, FiniteSets, TLC

\* ------------------------------------------------------------------ bounds
NumItems == 3
MaxEnqueues == 2
MaxIDs == 2
\* text helpers: lengths tried on each side of the limit, length of the
\* exhaustively enumerated short strings, times a helper is applied in a row
MaxOver == 2
MaxTextLen == 3
MaxApplications == 2

\* ---------------------------------------------------------- program constants
TEXT_CONTENT_MAX_LENGTH == 2000

\* --------------------------------------------------------------- universes
Items == 1..NumItems
\* identifier 0 is a library object that is not a regular item (a note)
ItemIDs == 0..NumItems
Collections == {1, 2}
NoQueue == [itemIDs |-> <<>>, timeoutID |-> -1]
NoTimer == 0
NoPage == <<0, 0>>
NoSchema == [none |-> "none"]
NoProperties == [none |-> "none"]
NoNotification == <<"none", "none">>
NoText == [helper |-> "none", content |-> <<>>]

VARIABLES
  prefs,          \* notionToken, notionDatabaseID, syncOnModifyItems, syncCollections
  queuedSync,     \* Notero.queuedSync: NoQueue or [itemIDs, timeoutID]
  syncInProgress, \* Notero.syncInProgress
  timers,         \* timeouts armed by setTimeout and neither fired nor cleared
  timerCount,     \* number of setTimeout calls so far (the next handle)
  runs,           \* the performSync invocation chains that have not returned
  storedPage,     \* per item, the Notion page stored by saveNotionLinkAttachment
  livePages,      \* the pages that exist in the remote database
  awaiting,       \* history: identifiers enqueued and not yet handed to a batch
  retrievals,     \* history: databases.retrieve calls issued by this process
  lastNotify,     \* history: <<event, type>> when the last step was a notification
  text,           \* the string handed to a text helper
  results         \* what the helper returned, applied once and then again

vars == <<prefs, queuedSync, syncInProgress, timers, timerCount, runs,
          storedPage, livePages, awaiting, retrievals, lastNotify, text, results>>

\* ----------------------------------------------------------------- helpers
Range(s) == {s[i] : i \in DOMAIN s}

RECURSIVE SetOf(_)
\* new Set([...]) keeps the first occurrence of every element, in order
SetOf(s) ==
  IF s = <<>> THEN <<>>
  ELSE LET front == SetOf(SubSeq(s, 1, Len(s) - 1))
           last == s[Len(s)]
       IN IF last \in Range(front) THEN front ELSE Append(front, last)

RemoveAt(s, i) == SubSeq(s, 1, i - 1) \o SubSeq(s, i + 1, Len(s))

\* notifications the observer is registered for and does not act on
OtherEvents == {<<"add", "item">>, <<"modify", "collection-item">>,
                <<"remove", "collection-item">>, <<"delete", "item">>}

IDLists == UNION {[1..n -> ItemIDs] : n \in 0..MaxIDs}

\* ------------------------------------------------------------ Notion client
PropertyDefinitions ==
  << [name |-> "Abstract",         type |-> "rich_text"],
     [name |-> "Authors",          type |-> "rich_text"],
     [name |-> "DOI",              type |-> "url"],
     [name |-> "Editors",          type |-> "rich_text"],
     [name |-> "File Path",        type |-> "rich_text"],
     [name |-> "Full Citation",    type |-> "rich_text"],
     [name |-> "In-Text Citation", type |-> "rich_text"],
     [name |-> "Item Type",        type |-> "select"],
     [name |-> "Tags",             type |-> "multi_select"],
     [name |-> "Title",            type |-> "rich_text"],
     [name |-> "URL",              type |-> "url"],
     [name |-> "Year",             type |-> "number"],
     [name |-> "Zotero URI",       type |-> "url"],
     [name |-> "Zotero URI",       type |-> "url"] >>

\* the schemas databases.retrieve may answer with (field name -> field type)
TitleTagsSchema == [n \in {"Title", "Tags"} |->
                      IF n = "Title" THEN "rich_text" ELSE "multi_select"]
MismatchSchema == [n \in {"Name", "DOI", "Year", "Tags"} |->
                      CASE n = "Name" -> "title"
                        [] n = "DOI" -> "rich_text"
                        [] n = "Year" -> "number"
                        [] OTHER -> "select"]
Schemas == {TitleTagsSchema, MismatchSchema}

\* a schema check by name only
databaseHasPropertyByName(databaseProperties, def) ==
  def.name \in DOMAIN databaseProperties

databaseHasProperty(databaseProperties, def) ==
  /\ def.name \in DOMAIN databaseProperties
  /\ databaseProperties[def.name] = def.type

validPropertyDefinitions(databaseProperties) ==
  SelectSeq(PropertyDefinitions,
            LAMBDA def : databaseHasProperty(databaseProperties, def))

\* the payload as a map field name -> field type; "title" is always present
buildItemProperties(databaseProperties) ==
  LET valid == validPropertyDefinitions(databaseProperties)
      names == {valid[i].name : i \in DOMAIN valid}
  IN [n \in {"title"} \cup names |->
        IF n \in names
        THEN (CHOOSE d \in Range(valid) : d.name = n).type
        ELSE "title"]

\* ------------------------------------------------------------- text helpers
\* a string is the sequence of its UTF-16 code units
Min(a, b) == IF a < b THEN a ELSE b

\* a truncation that is off by one
truncateTextOneMore(t) == SubSeq(t, 1, Min(Len(t), TEXT_CONTENT_MAX_LENGTH + 1))

\* text.substr(0, TEXT_CONTENT_MAX_LENGTH): substr clamps to the string's end
truncateTextToMaxLength(t) == SubSeq(t, 1, Min(Len(t), TEXT_CONTENT_MAX_LENGTH))

\* text.replace(',', ';'): without the g flag only the first comma is replaced
sanitizeFirstComma(t) ==
  [i \in DOMAIN t |->
     IF t[i] = "," /\ \A j \in 1..(i - 1) : t[j] # "," THEN ";" ELSE t[i]]

\* text.replace(/,/g, ';')
sanitizeSelectOption(t) == [i \in DOMAIN t |-> IF t[i] = "," THEN ";" ELSE t[i]]

\* the strings the helpers are tried on: every string over three characters
\* up to MaxTextLen, and strings of every length around the limit
Chars == {"a", ",", ";"}
ShortTexts == UNION {[1..n -> Chars] : n \in 0..MaxTextLen}
TextOfLength(n, k) == [i \in 1..n |-> IF i % k = 0 THEN "," ELSE "a"]
LongTexts ==
  {TextOfLength(n, k) :
     n \in ((TEXT_CONTENT_MAX_LENGTH - MaxOver)..(TEXT_CONTENT_MAX_LENGTH + MaxOver))
            \cup {TEXT_CONTENT_MAX_LENGTH + TEXT_CONTENT_MAX_LENGTH},
     k \in {2, 3}}
Texts == ShortTexts \cup LongTexts

\* --------------------------------------------------------------------- Init
Init ==
  /\ prefs \in [notionToken : BOOLEAN, notionDatabaseID : BOOLEAN,
                syncOnModifyItems : BOOLEAN, syncCollections : {{}, {1}}]
  /\ queuedSync = NoQueue
  /\ syncInProgress = FALSE
  /\ timers = {}
  /\ timerCount = 0
  /\ runs = <<>>
  /\ storedPage = [i \in Items |-> NoPage]
  /\ livePages = {}
  /\ awaiting = {}
  /\ retrievals = 0
  /\ lastNotify = NoNotification
  /\ text = NoText
  /\ results = <<>>

\* ------------------------------------------------------------ debounce queue
ItemCollections(id) == IF id \in Items THEN {1} ELSE {}
isRegularItem(id) == id \in Items

\* a merge that forgets what was already queued
MergedItemIDsNewOnly(queued, items) == SetOf(items)

\* a merge that puts the new identifiers in front of the queued ones
MergedItemIDsNewFirst(queued, items) == SetOf(items \o queued)

\* the Set built from the queued identifiers followed by the new ones
MergedItemIDs(queued, items) == SetOf(queued \o items)

\* an enqueue that leaves the pending timeout armed
TimersAfterNoClear == timers

\* lines 440-442: clearTimeout of the pending timeout, if there is one
TimersAfterClear ==
  IF queuedSync # NoQueue /\ queuedSync.timeoutID # NoTimer
  THEN timers \ {queuedSync.timeoutID}
  ELSE timers

enqueueItemsToSync(items) ==
  IF items = <<>>
  THEN UNCHANGED <<queuedSync, timers, timerCount, awaiting>>
  ELSE LET queued == IF queuedSync = NoQueue THEN <<>> ELSE queuedSync.itemIDs
           kept == TimersAfterClear
           timeoutID == timerCount + 1
       IN /\ queuedSync' = [itemIDs |-> MergedItemIDs(queued, items),
                            timeoutID |-> timeoutID]
          /\ timers' = kept \cup {timeoutID}
          /\ timerCount' = timeoutID
          /\ awaiting' = awaiting \cup Range(items)

onAddItemsToCollection(collectionID, ids) ==
  IF prefs.syncCollections = {}
  THEN UNCHANGED <<queuedSync, timers, timerCount, awaiting>>
  ELSE enqueueItemsToSync(
         SelectSeq(ids, LAMBDA id : /\ isRegularItem(id)
                                    /\ collectionID \in prefs.syncCollections))

onModifyItems(ids) ==
  IF prefs.syncCollections = {}
  THEN UNCHANGED <<queuedSync, timers, timerCount, awaiting>>
  ELSE enqueueItemsToSync(
         SelectSeq(ids, LAMBDA id : /\ isRegularItem(id)
                                    /\ ItemCollections(id) \cap prefs.syncCollections # {}))

\* an observer that forwards added-to-collection whatever the flag says
SyncsOnAddAnyFlag(event, type) == event = "add" /\ type = "collection-item"

\* lines 334-337
SyncsOnAdd(event, type) ==
  ~prefs.syncOnModifyItems /\ event = "add" /\ type = "collection-item"

\* an observer that forwards modified whatever the flag says
SyncsOnModifyAnyFlag(event, type) == event = "modify" /\ type = "item"

\* line 339
SyncsOnModify(event, type) ==
  prefs.syncOnModifyItems /\ event = "modify" /\ type = "item"

notify(event, type, collectionID, ids) ==
  /\ timerCount < MaxEnqueues
  /\ IF SyncsOnAdd(event, type)
     THEN onAddItemsToCollection(collectionID, ids)
     ELSE IF SyncsOnModify(event, type)
          THEN onModifyItems(ids)
          ELSE UNCHANGED <<queuedSync, timers, timerCount, awaiting>>
  /\ lastNotify' = <<event, type>>
  /\ UNCHANGED <<prefs, syncInProgress, runs, storedPage, livePages, retrievals,
                 text, results>>

\* a client factory that never looks at the preferences
getNotionUnchecked == TRUE

\* ------------------------------------------------------------ one item upsert
\* NoteroItem keeps the page of an item in a link attachment of the item:
\* getNotionPageID reads back what saveNotionLinkAttachment stored
getNotionPageID(item) == storedPage[item]
saveNotionLinkAttachment(item, page) == [storedPage EXCEPT ![item] = page]

getNotion == prefs.notionToken /\ prefs.notionDatabaseID

\* an update attempted whether or not a page is stored
ShouldUpdateAlways(pageID) == TRUE

\* the stored page ignored: every upsert creates
ShouldUpdateNever(pageID) == FALSE

\* line 115: an update is attempted when the item has a stored page
ShouldUpdate(pageID) == pageID # NoPage

\* no update error swallowed
UpdateErrorRecoveredNever(code) == FALSE

\* a fallback to create after any failure of the update
UpdateErrorRecoveredAlways(code) == TRUE

\* lines 119-124: the only update error that is swallowed
UpdateErrorRecovered(code) == code = "object_not_found"

\* the retrieved schema returned and not memoized
StoreDatabasePropertiesNot(properties) == NoSchema

\* line 104: what getDatabaseProperties memoizes after a retrieval
StoreDatabaseProperties(properties) == properties

\* saveItemToDatabase after buildItemProperties: issue update or create
IssueUpsert(run, databaseProperties) ==
  LET item == run.items[run.step]
      built == [run EXCEPT !.properties = buildItemProperties(databaseProperties),
                           !.called = @ \cup {item}]
  IN IF ShouldUpdate(run.pageID)
     THEN [built EXCEPT !.pc = "update", !.updateCalls = @ + 1]
     ELSE [built EXCEPT !.pc = "create", !.createCalls = @ + 1]

\* saveItemToNotion up to its first remote call, for the item at run.step
BeginItem(run) ==
  LET item == run.items[run.step]
      fresh == [run EXCEPT !.pageID = getNotionPageID(item),
                           !.properties = NoProperties,
                           !.updateCalls = 0, !.createCalls = 0,
                           !.updateCode = "none", !.response = NoPage]
  IN IF fresh.databaseProperties = NoSchema
     THEN [fresh EXCEPT !.pc = "retrieve", !.retrieveCalls = @ + 1]
     ELSE IssueUpsert(fresh, fresh.databaseProperties)

\* a catch inside the loop: the failure is shown and the loop goes on
OnBatchErrorContinue(run, kind) ==
  LET shown == [run EXCEPT !.error = kind, !.errors = @ + 1]
  IN IF run.step < Len(run.items) /\ kind # "config"
     THEN BeginItem([shown EXCEPT !.step = @ + 1])
     ELSE [shown EXCEPT !.pc = "after"]

\* catch block of saveItemsToNotion: the batch ends, one failure is shown
OnBatchError(run, kind) ==
  [run EXCEPT !.pc = "after", !.error = kind, !.errors = @ + 1]

\* saveItemsToNotion up to its first suspension point
saveItemsToNotion(itemIDs) ==
  LET run == [items |-> itemIDs, step |-> 1, pc |-> "after",
              databaseProperties |-> NoSchema, retrieveCalls |-> 0,
              pageID |-> NoPage, properties |-> NoProperties,
              updateCalls |-> 0, createCalls |-> 0, updateCode |-> "none",
              response |-> NoPage, saved |-> <<>>, called |-> {},
              error |-> "none", errors |-> 0, depth |-> 0]
  IN IF itemIDs = <<>> THEN run
     ELSE IF getNotion THEN BeginItem(run)
          ELSE OnBatchError(run, "config")

\* ------------------------------------------------------------ sync coordinator
\* a timer callback that starts a pass without looking at the flag
TimerMayStartSyncAlways == TRUE

\* line 453: the timer callback starts a pass only when none is in progress
TimerMayStartSync == ~syncInProgress

\* a callback that leaves the fired timer's handle in the queue
TimeoutIDAfterFireKept == queuedSync.timeoutID

\* line 452: the callback forgets the handle of the timer that just fired
TimeoutIDAfterFire == NoTimer

\* 1 when the run has just issued databases.retrieve, else 0
RetrieveIssued(run) == IF run.pc = "retrieve" THEN 1 ELSE 0

\* a coordinator that never looks at the queue after a batch
ShouldRedrainNever == FALSE

\* a coordinator that re-drains a ChangeSet whose timer is still pending
ShouldRedrainAnyQueue == queuedSync # NoQueue

\* line 470: after a batch, re-drain a ChangeSet whose timer already fired
ShouldRedrain == queuedSync # NoQueue /\ queuedSync.timeoutID = NoTimer

TimerFire(t) ==
  /\ t \in timers
  /\ timers' = timers \ {t}
  /\ IF queuedSync = NoQueue
     THEN UNCHANGED <<queuedSync, syncInProgress, runs, awaiting, retrievals>>
     ELSE IF TimerMayStartSync
          THEN \* performSync up to the first suspension point
               LET run == saveItemsToNotion(queuedSync.itemIDs)
               IN /\ queuedSync' = NoQueue
                  /\ syncInProgress' = TRUE
                  /\ runs' = Append(runs, run)
                  /\ awaiting' = awaiting \ Range(queuedSync.itemIDs)
                  /\ retrievals' = retrievals + RetrieveIssued(run)
          ELSE /\ queuedSync' = [queuedSync EXCEPT !.timeoutID = TimeoutIDAfterFire]
               /\ UNCHANGED <<syncInProgress, runs, awaiting, retrievals>>
  /\ lastNotify' = NoNotification
  /\ UNCHANGED <<text, results, prefs, timerCount, storedPage, livePages>>

\* databases.retrieve answers
RetrieveReturn(r, ok, schema) ==
  /\ r \in DOMAIN runs
  /\ runs[r].pc = "retrieve"
  /\ runs' = [runs EXCEPT ![r] =
       IF ok
       THEN IssueUpsert([@ EXCEPT !.databaseProperties =
                                     StoreDatabaseProperties(schema)], schema)
       ELSE OnBatchError(@, "retrieve")]
  /\ lastNotify' = NoNotification
  /\ UNCHANGED <<text, results, prefs, queuedSync, syncInProgress, timers, timerCount,
                 storedPage, livePages, awaiting, retrievals>>

\* pages.update answers: with the page, with object_not_found, or another error
UpdateReturn(r, code) ==
  /\ r \in DOMAIN runs
  /\ runs[r].pc = "update"
  /\ code = "ok" => runs[r].pageID \in livePages
  /\ code = "object_not_found" => runs[r].pageID \notin livePages
  /\ LET run == [runs[r] EXCEPT !.updateCode = code]
     IN runs' = [runs EXCEPT ![r] =
          IF code = "ok"
          THEN [run EXCEPT !.pc = "sink", !.response = run.pageID]
          ELSE IF UpdateErrorRecovered(code)
               THEN [run EXCEPT !.pc = "create", !.createCalls = @ + 1]
               ELSE OnBatchError(run, "update")]
  /\ lastNotify' = NoNotification
  /\ UNCHANGED <<text, results, prefs, queuedSync, syncInProgress, timers, timerCount,
                 storedPage, livePages, awaiting, retrievals>>

\* the pages some part of the state still refers to
PagesInUse ==
  livePages \cup Range(storedPage)
            \cup {runs[r].pageID : r \in DOMAIN runs}
            \cup {runs[r].response : r \in DOMAIN runs}

\* the identifier of a page the remote creates for an item: one that nothing
\* refers to (the remote never gives out an identifier twice; an identifier
\* nothing remembers is as good as a new one)
NewPage(item) ==
  <<item, CHOOSE n \in 1..(MaxEnqueues + 3) :
            /\ <<item, n>> \notin PagesInUse
            /\ \A m \in 1..(n - 1) : <<item, m>> \in PagesInUse>>

\* pages.create answers: with a new page, or with an error
CreateReturn(r, ok) ==
  /\ r \in DOMAIN runs
  /\ runs[r].pc = "create"
  /\ LET item == runs[r].items[runs[r].step]
         page == NewPage(item)
     IN IF ok
        THEN /\ runs' = [runs EXCEPT ![r] = [@ EXCEPT !.pc = "sink",
                                                      !.response = page]]
             /\ livePages' = livePages \cup {page}
        ELSE /\ runs' = [runs EXCEPT ![r] = OnBatchError(@, "create")]
             /\ UNCHANGED livePages
  /\ lastNotify' = NoNotification
  /\ UNCHANGED <<text, results, prefs, queuedSync, syncInProgress, timers, timerCount,
                 storedPage, awaiting, retrievals>>

\* saveNotionTag and saveNotionLinkAttachment(response.url), then the next
\* item of the loop up to its first remote call (the remote answers with the
\* whole page object, so 'url' is in the response)
SaveResult(r) ==
  /\ r \in DOMAIN runs
  /\ runs[r].pc = "sink"
  /\ LET run == runs[r]
         item == run.items[run.step]
         done == [run EXCEPT !.saved = Append(@, item)]
         next == IF run.step = Len(run.items)
                 THEN [done EXCEPT !.pc = "after"]
                 ELSE BeginItem([done EXCEPT !.step = @ + 1])
     IN /\ storedPage' = saveNotionLinkAttachment(item, run.response)
        /\ runs' = [runs EXCEPT ![r] = next]
        /\ retrievals' = retrievals + RetrieveIssued(next)
  /\ lastNotify' = NoNotification
  /\ UNCHANGED <<text, results, prefs, queuedSync, syncInProgress, timers, timerCount,
                 livePages, awaiting>>

\* performSync after `await this.saveItemsToNotion(itemIDs)`
AfterBatch(r) ==
  /\ r \in DOMAIN runs
  /\ runs[r].pc = "after"
  /\ IF ShouldRedrain
     THEN \* the recursive performSync, up to its first suspension point
          \* depth is history: the nesting of this performSync call
          LET run == [saveItemsToNotion(queuedSync.itemIDs)
                        EXCEPT !.depth = runs[r].depth + 1]
          IN /\ queuedSync' = NoQueue
             /\ syncInProgress' = TRUE
             /\ runs' = [runs EXCEPT ![r] = run]
             /\ awaiting' = awaiting \ Range(queuedSync.itemIDs)
             /\ retrievals' = retrievals + RetrieveIssued(run)
     ELSE \* every frame of the chain returns, each clearing the flag; the
          \* frames resume as consecutive microtasks, so no timer runs between
          /\ syncInProgress' = FALSE
          /\ runs' = RemoveAt(runs, r)
          /\ UNCHANGED <<queuedSync, awaiting, retrievals>>
  /\ lastNotify' = NoNotification
  /\ UNCHANGED <<text, results, prefs, timers, timerCount, storedPage, livePages>>

\* somebody deletes a page in Notion
DeletePage(page) ==
  /\ page \in livePages
  /\ livePages' = livePages \ {page}
  /\ lastNotify' = NoNotification
  /\ UNCHANGED <<text, results, prefs, queuedSync, syncInProgress, timers, timerCount, runs,
                 storedPage, awaiting, retrievals>>

Next ==
  \/ \E collectionID \in Collections, ids \in IDLists :
       notify("add", "collection-item", collectionID, ids)
  \/ \E ids \in IDLists : notify("modify", "item", 0, ids)
  \/ \E event \in OtherEvents, id \in ItemIDs :
       notify(event[1], event[2], 0, <<id>>)
  \/ \E t \in timers : TimerFire(t)
  \/ \E r \in DOMAIN runs, ok \in BOOLEAN, schema \in Schemas :
       RetrieveReturn(r, ok, schema)
  \/ \E r \in DOMAIN runs, code \in {"ok", "object_not_found", "error"} :
       UpdateReturn(r, code)
  \/ \E r \in DOMAIN runs, ok \in BOOLEAN : CreateReturn(r, ok)
  \/ \E r \in DOMAIN runs : SaveResult(r)
  \/ \E r \in DOMAIN runs : AfterBatch(r)
  \/ \E page \in livePages : DeletePage(page)

Spec == Init /\ [][Next]_vars

\* the fairness the runtime gives: an armed timer fires, a remote call answers,
\* a resumed continuation runs
FairSpec ==
  /\ Spec
  /\ WF_vars(\E t \in timers : TimerFire(t))
  /\ WF_vars(\E r \in DOMAIN runs, ok \in BOOLEAN, schema \in Schemas :
               RetrieveReturn(r, ok, schema))
  /\ WF_vars(\E r \in DOMAIN runs, code \in {"ok", "object_not_found", "error"} :
               UpdateReturn(r, code))
  /\ WF_vars(\E r \in DOMAIN runs, ok \in BOOLEAN : CreateReturn(r, ok))
  /\ WF_vars(\E r \in DOMAIN runs : SaveResult(r))
  /\ WF_vars(\E r \in DOMAIN runs : AfterBatch(r))

\* ------------------------------------------------- the text helpers, applied
LastText == IF results = <<>> THEN text.content ELSE results[Len(results)]

ApplyTruncate ==
  /\ text.helper = "truncateTextToMaxLength"
  /\ Len(results) < MaxApplications
  /\ results' = Append(results, truncateTextToMaxLength(LastText))
  /\ UNCHANGED <<prefs, queuedSync, syncInProgress, timers, timerCount, runs,
                 storedPage, livePages, awaiting, retrievals, lastNotify, text>>

ApplySanitize ==
  /\ text.helper = "sanitizeSelectOption"
  /\ Len(results) < MaxApplications
  /\ results' = Append(results, sanitizeSelectOption(LastText))
  /\ UNCHANGED <<prefs, queuedSync, syncInProgress, timers, timerCount, runs,
                 storedPage, livePages, awaiting, retrievals, lastNotify, text>>

TextInit ==
  /\ prefs = [notionToken |-> TRUE, notionDatabaseID |-> TRUE,
              syncOnModifyItems |-> FALSE, syncCollections |-> {1}]
  /\ queuedSync = NoQueue
  /\ syncInProgress = FALSE
  /\ timers = {}
  /\ timerCount = 0
  /\ runs = <<>>
  /\ storedPage = [i \in Items |-> NoPage]
  /\ livePages = {}
  /\ awaiting = {}
  /\ retrievals = 0
  /\ lastNotify = NoNotification
  /\ text \in [helper : {"truncateTextToMaxLength", "sanitizeSelectOption"},
                content : Texts]
  /\ results = <<>>

TextNext == ApplyTruncate \/ ApplySanitize

TextSpec == TextInit /\ [][TextNext]_vars

\* ------------------------------------------------------------------ properties
NoDuplicates(s) == Cardinality(Range(s)) = Len(s)
LivePagesIn(pages, item) == {page \in pages : page[1] = item}
LivePagesOf(item) == LivePagesIn(livePages, item)
Executing(run) == run.pc # "after"
HandOff == queuedSync # NoQueue /\ queuedSync' = NoQueue
\* the step is the code of performSync after the awaited batch
BatchEnds ==
  /\ \E r \in DOMAIN runs : runs[r].pc = "after"
  /\ lastNotify' = NoNotification
  /\ timers' = timers
  /\ livePages' = livePages
  /\ <<queuedSync, runs, syncInProgress>>' # <<queuedSync, runs, syncInProgress>>
\* the items of a batch are dealt with one at a time, in the batch's order
InOrder(run, stored) ==
  /\ NoDuplicates(run.items)
  /\ Len(run.saved) <= Len(run.items)
  /\ run.saved = SubSeq(run.items, 1, Len(run.saved))
  /\ Executing(run) => Len(run.saved) = run.step - 1
  /\ Range(run.saved) \subseteq run.called
  /\ run.called \subseteq Range(run.saved) \cup {run.items[run.step]}
  /\ \A i \in DOMAIN run.saved : stored[run.saved[i]] # NoPage
\* the step is a timer callback
TimerFires == timerCount' = timerCount /\ timers' # timers

\* C1: at most one synchronisation pass exists at any instant, and a pass
\* exists only while syncInProgress is set
C1_SingleFlight ==
  /\ Len(runs) <= 1
  /\ \A r \in DOMAIN runs : syncInProgress

\* a batch is executing while a ChangeSet whose timer already fired waits
C1_Witness ==
  \E r \in DOMAIN runs :
    /\ Executing(runs[r])
    /\ queuedSync # NoQueue
    /\ queuedSync.timeoutID = NoTimer

\* C2: the enqueue calls of one debounce window produce exactly one batch: when
\* the timer hands the ChangeSet off while idle, one new pass starts, its items
\* are the identifiers enqueued since the last hand-off, each once, and neither
\* a ChangeSet nor a timer is left to produce a second batch
C2_OneBatchPerWindow ==
  [][ (~syncInProgress /\ HandOff) =>
        /\ Len(runs') = Len(runs) + 1
        /\ Range(runs'[Len(runs')].items) = awaiting
        /\ NoDuplicates(runs'[Len(runs')].items)
        /\ timers' = {}
        /\ awaiting' = {} ]_vars

\* a batch of three items that two enqueue calls of one window produced
C2_Witness ==
  /\ timerCount = 2
  /\ queuedSync = NoQueue
  /\ \E r \in DOMAIN runs :
       Executing(runs[r]) /\ Len(runs[r].items) = 3 /\ runs[r].saved = <<>>

\* C3: while a pass is in progress, a timer that fires (a timer is consumed
\* and no enqueue call was made) starts no batch and arms no timer; a hand-off
\* happens only at the end of the running batch, in the same pass, and takes
\* the whole waiting ChangeSet
C3_EnqueueWhileRunning ==
  [][ /\ (syncInProgress /\ timerCount' = timerCount /\ timers \ timers' # {}) =>
           /\ runs' = runs
           /\ timers' \subseteq timers
           /\ queuedSync # NoQueue
           /\ queuedSync' = [queuedSync EXCEPT !.timeoutID = NoTimer]
      /\ (syncInProgress /\ HandOff) =>
           /\ Len(runs') = Len(runs)
           /\ \E r \in DOMAIN runs :
                /\ runs[r].pc = "after"
                /\ runs'[r].items = queuedSync.itemIDs
                /\ Range(queuedSync.itemIDs) = awaiting
      /\ \A r \in DOMAIN runs :
           (runs[r].pc = "after" /\ runs' # runs
              /\ queuedSync # NoQueue /\ queuedSync.timeoutID = NoTimer) =>
           HandOff ]_vars

\* a batch has ended while a ChangeSet enqueued during it, whose timer fired
\* during it, waits for the re-drain check
C3_Witness ==
  /\ syncInProgress
  /\ timers = {}
  /\ queuedSync # NoQueue
  /\ queuedSync.timeoutID = NoTimer
  /\ \E r \in DOMAIN runs : runs[r].pc = "after" /\ runs[r].saved # <<>>

\* C4: every identifier that was enqueued is eventually handed to the
\* coordinator in a batch
C4_NoChangeStranded ==
  \A i \in Items : (i \in awaiting) ~> (i \notin awaiting)

\* an identifier enqueued during a batch whose timer has fired already
C4_Witness ==
  \E r \in DOMAIN runs :
    /\ runs[r].pc = "sink"
    /\ queuedSync # NoQueue
    /\ queuedSync.timeoutID = NoTimer
    /\ awaiting # {}

\* C5: when the upsert of item k fails, the items before k are exactly those
\* reported to the result sink, no remote upsert call was made for an item
\* after k, one failure is shown, and the ChangeSet holds only what was
\* enqueued since the hand-off
C5_AbortOnError ==
  \A r \in DOMAIN runs :
    (runs[r].pc = "after" /\ runs[r].error \in {"update", "create"}) =>
      LET run == runs[r]
          k == run.step
      IN /\ run.saved = SubSeq(run.items, 1, k - 1)
         /\ run.called = Range(SubSeq(run.items, 1, k))
         /\ run.errors = 1
         /\ \A j \in 1..(k - 1) : storedPage[run.items[j]] # NoPage
         /\ Range(queuedSync.itemIDs) = awaiting

\* item 2 of a batch of three failed
C5_Witness ==
  \E r \in DOMAIN runs :
    /\ runs[r].pc = "after"
    /\ runs[r].error \in {"update", "create"}
    /\ runs[r].step = 2
    /\ Len(runs[r].items) = 3

\* C6: the upsert of an item without a stored page issues exactly one create
\* call and no update call
C6_CreateWhenNoStoredPage ==
  \A r \in DOMAIN runs :
    runs[r].pageID = NoPage =>
      /\ runs[r].updateCalls = 0
      /\ runs[r].createCalls <= 1
      /\ runs[r].pc \in {"create", "sink"} => runs[r].createCalls = 1

\* an item without a stored page has been created
C6_Witness ==
  \E r \in DOMAIN runs :
    /\ runs[r].pc = "sink"
    /\ runs[r].pageID = NoPage
    /\ runs[r].response \in livePages

\* C7: when the update of the stored page answers object_not_found, exactly
\* one update and one create are issued, the not-found error is not shown,
\* and the result sink stores the page the create returned, not the stale one
C7_NotFoundFallsBackToCreate ==
  [][ \A r \in DOMAIN runs :
        runs[r].updateCode = "object_not_found" =>
          /\ runs[r].pc \in {"create", "sink", "after"}
          /\ runs[r].updateCalls = 1
          /\ runs[r].createCalls = 1
          /\ runs[r].error \in {"none", "create"}
          /\ runs[r].errors = (IF runs[r].error = "none" THEN 0 ELSE 1)
          /\ runs[r].pc = "sink" =>
               /\ runs[r].response # runs[r].pageID
               /\ runs[r].response # NoPage
               /\ runs' # runs =>
                    storedPage'[runs[r].items[runs[r].step]] = runs[r].response ]_vars

\* a create that followed a not-found update has returned a new page
C7_Witness ==
  \E r \in DOMAIN runs :
    /\ runs[r].pc = "sink"
    /\ runs[r].updateCode = "object_not_found"
    /\ runs[r].pageID # NoPage
    /\ runs[r].response # runs[r].pageID

\* C8: repeated synchronisation of an item leaves at most one live page for
\* it: an update that reaches the page is followed by no create, a create is
\* issued after a stored page only when that page is gone, every completed
\* upsert leaves exactly one live page, and the sink stores the page returned
C8_IdempotentUpsert ==
  [][ /\ \A i \in Items : Cardinality(LivePagesOf(i)') <= 1
      /\ \A r \in DOMAIN runs :
           /\ runs[r].updateCode \in {"ok", "error"} => runs[r].createCalls = 0
           /\ (runs[r].updateCode = "ok" /\ runs[r].pc = "sink") =>
                runs[r].response = runs[r].pageID
           /\ (runs[r].pc \in {"update", "create"} /\ r \in DOMAIN runs'
                 /\ runs'[r].pc = "sink") =>
                LivePagesIn(livePages', runs[r].items[runs[r].step]) =
                  {runs'[r].response}
           /\ (runs[r].pc = "sink" /\ runs' # runs) =>
                storedPage'[runs[r].items[runs[r].step]] = runs[r].response ]_vars

\* a second synchronisation of an item has updated its live page
C8_Witness ==
  \E r \in DOMAIN runs :
    /\ runs[r].pc = "sink"
    /\ runs[r].updateCode = "ok"
    /\ runs[r].createCalls = 0
    /\ LivePagesOf(runs[r].items[runs[r].step]) = {runs[r].pageID}

\* C9 as claimed: every field of a payload is in the fetched schema with the
\* same type, and for the Title/Tags schema the payload has exactly those two
C9_OnlySchemaFields ==
  \A r \in DOMAIN runs :
    runs[r].properties # NoProperties =>
      /\ \A n \in DOMAIN runs[r].properties :
           /\ n \in DOMAIN runs[r].databaseProperties
           /\ runs[r].databaseProperties[n] = runs[r].properties[n]
      /\ runs[r].databaseProperties = TitleTagsSchema =>
           DOMAIN runs[r].properties = {"Title", "Tags"}

\* C9 amended: every field of a payload other than the page title, which is
\* always present, is in the fetched schema with the same type; for the
\* Title/Tags schema the payload has title, Title and Tags
C9_OnlySchemaFieldsBesideTitle ==
  \A r \in DOMAIN runs :
    runs[r].properties # NoProperties =>
      /\ "title" \in DOMAIN runs[r].properties
      /\ \A n \in DOMAIN runs[r].properties \ {"title"} :
           /\ n \in DOMAIN runs[r].databaseProperties
           /\ runs[r].databaseProperties[n] = runs[r].properties[n]
      /\ runs[r].databaseProperties = TitleTagsSchema =>
           DOMAIN runs[r].properties = {"title", "Title", "Tags"}

\* a payload was built against a schema that has DOI with another type
C9_Witness ==
  \E r \in DOMAIN runs :
    /\ runs[r].pc \in {"update", "create"}
    /\ runs[r].databaseProperties = MismatchSchema
    /\ DOMAIN runs[r].properties = {"title", "Year"}

\* C10 as claimed: the process issues databases.retrieve at most once
C10_OneRetrievalPerProcess == retrievals <= 1

\* C10 amended: each Notion client, built anew for every batch, issues
\* databases.retrieve at most once, and once it holds the schema every later
\* getDatabaseProperties of that batch is answered from it
C10_OneRetrievalPerBatch ==
  \A r \in DOMAIN runs :
    /\ runs[r].retrieveCalls <= 1
    /\ runs[r].databaseProperties # NoSchema =>
         /\ runs[r].pc # "retrieve"
         /\ runs[r].retrieveCalls = 1
    /\ runs[r].step > 1 => runs[r].databaseProperties # NoSchema

\* the second item of a batch is being upserted with the memoized schema
C10_Witness ==
  \E r \in DOMAIN runs :
    /\ runs[r].step = 2
    /\ runs[r].pc \in {"update", "create"}
    /\ runs[r].retrieveCalls = 1
    /\ retrievals = 2

\* C11: truncating a text longer than the limit yields exactly the limit's
\* length and a prefix of the input; a text within the limit is unchanged;
\* truncating a truncated text changes nothing
C11_Truncation ==
  (text.helper = "truncateTextToMaxLength" /\ results # <<>>) =>
    LET in == text.content
        out == results[1]
    IN /\ Len(in) > TEXT_CONTENT_MAX_LENGTH =>
            /\ Len(out) = TEXT_CONTENT_MAX_LENGTH
            /\ \A i \in 1..Len(out) : out[i] = in[i]
       /\ Len(in) <= TEXT_CONTENT_MAX_LENGTH => out = in
       /\ \A n \in 2..Len(results) : results[n] = out

\* a text longer than the limit was truncated, and truncated again
C11_Witness ==
  /\ text.helper = "truncateTextToMaxLength"
  /\ Len(text.content) > TEXT_CONTENT_MAX_LENGTH
  /\ Len(results) >= 2

\* C12: sanitising a tag replaces every comma by a semicolon and changes no
\* other character: same length, no comma left; sanitising again changes
\* nothing
C12_Sanitization ==
  (text.helper = "sanitizeSelectOption" /\ results # <<>>) =>
    LET in == text.content
        out == results[1]
    IN /\ Len(out) = Len(in)
       /\ \A i \in 1..Len(in) : out[i] = IF in[i] = "," THEN ";" ELSE in[i]
       /\ \A i \in 1..Len(out) : out[i] # ","
       /\ \A n \in 2..Len(results) : results[n] = out

\* a tag with two commas and another character was sanitised, twice
C12_Witness ==
  /\ text.helper = "sanitizeSelectOption"
  /\ Cardinality({i \in DOMAIN text.content : text.content[i] = ","}) >= 2
  /\ \E i \in DOMAIN text.content : text.content[i] = "a"
  /\ Len(results) >= 2

\* C13 as stated: with the token or the database identifier missing the
\* failure is raised before any notification is accepted into the ChangeSet
\* and before any batch is drained; no ChangeSet is drained and discarded
C13_FailsBeforeAnyEnqueue ==
  (~prefs.notionToken \/ ~prefs.notionDatabaseID) =>
    /\ queuedSync = NoQueue
    /\ awaiting = {}
    /\ \A r \in DOMAIN runs : runs[r].error # "config"

\* C13: the missing-configuration failure is raised by getNotion at the start
\* of every batch, after the ChangeSet was drained: the batch then ends at
\* once with that single failure, without any remote call and without any
\* item saved; with both settings present the failure is never raised
C13_FailsAtBatchStart ==
  \A r \in DOMAIN runs :
    IF prefs.notionToken /\ prefs.notionDatabaseID
    THEN runs[r].error # "config"
    ELSE /\ runs[r].error = "config"
         /\ runs[r].pc = "after"
         /\ runs[r].errors = 1
         /\ runs[r].called = {}
         /\ runs[r].retrieveCalls = 0
         /\ runs[r].saved = <<>>

\* with the configuration missing, a ChangeSet was accepted, drained by a
\* batch, and that batch failed: the identifiers are in no queue any more
C13_Witness ==
  \E r \in DOMAIN runs :
    /\ runs[r].error = "config"
    /\ runs[r].items # <<>>
    /\ queuedSync = NoQueue
    /\ awaiting = {}
    /\ syncInProgress

\* C14: a modified notification reaches the queue only when the
\* sync-on-modify flag is enabled; with the flag disabled no modified
\* notification changes the ChangeSet or arms a timer
C14_ModifyOnlyWhenEnabled ==
  [][(lastNotify' = <<"modify", "item">> /\ ~prefs.syncOnModifyItems) =>
       UNCHANGED <<queuedSync, timers, timerCount, awaiting>>]_vars

\* with the flag disabled, a modified notification was delivered while a
\* ChangeSet was waiting for its timer
C14_Witness ==
  /\ ~prefs.syncOnModifyItems
  /\ lastNotify = <<"modify", "item">>
  /\ queuedSync # NoQueue
  /\ queuedSync.timeoutID \in timers

\* C15: when a batch has completed and the queue holds a ChangeSet with no
\* pending timer, the coordinator starts at once another batch with that
\* snapshot and syncInProgress stays set; otherwise syncInProgress is cleared,
\* a queued ChangeSet keeps its armed timer, and that timer's callback starts
\* the batch; syncInProgress is cleared by no other step
C15_RedrainOrIdle ==
  [][/\ BatchEnds =>
          IF queuedSync # NoQueue /\ queuedSync.timeoutID = NoTimer
          THEN /\ syncInProgress /\ syncInProgress'
               /\ queuedSync' = NoQueue
               /\ Len(runs') = 1
               /\ runs'[1].items = queuedSync.itemIDs
          ELSE /\ ~syncInProgress'
               /\ runs' = <<>>
               /\ queuedSync' = queuedSync
               /\ queuedSync # NoQueue => queuedSync.timeoutID \in timers'
     /\ (syncInProgress /\ ~syncInProgress') => BatchEnds
     /\ (TimerFires /\ ~syncInProgress /\ queuedSync # NoQueue) =>
          /\ syncInProgress'
          /\ queuedSync' = NoQueue
          /\ Len(runs') = 1
          /\ runs'[1].items = queuedSync.itemIDs]_vars

\* a batch started by the coordinator right after another batch, from a
\* ChangeSet whose timer fired during that batch, is executing
C15_Witness ==
  \E r \in DOMAIN runs :
    /\ runs[r].depth > 0
    /\ Executing(runs[r])
    /\ syncInProgress
    /\ queuedSync = NoQueue

\* C16: the queue debounces: every enqueue cancels the pending timer and
\* arms a fresh one, so the only timer that ever fires is the one armed by
\* the most recent enqueue (every timer is armed with the full window, so it
\* fires a full window after that enqueue); no cancelled timer fires
C16_Debounce ==
  [][/\ timerCount' # timerCount =>
          /\ timerCount' = timerCount + 1
          /\ timers' = {timerCount'}
          /\ queuedSync' # NoQueue
          /\ queuedSync'.timeoutID = timerCount'
     /\ TimerFires =>
          /\ timers \ timers' = {timerCount}
          /\ timers' \subseteq timers
          /\ queuedSync # NoQueue
          /\ queuedSync.timeoutID = timerCount]_vars

\* a second enqueue has replaced the timer of the first before it fired: no
\* batch was ever started although the configuration is complete
C16_Witness ==
  /\ prefs.notionToken /\ prefs.notionDatabaseID
  /\ timerCount >= 2
  /\ timers = {timerCount}
  /\ queuedSync # NoQueue
  /\ Len(queuedSync.itemIDs) >= 2
  /\ retrievals = 0
  /\ runs = <<>>

\* C17: at most one debounce timer is outstanding, it is the one recorded in
\* the current ChangeSet, and none is outstanding when there is no ChangeSet
C17_OneTimerOfCurrentChangeSet ==
  /\ Cardinality(timers) <= 1
  /\ queuedSync = NoQueue => timers = {}
  /\ queuedSync # NoQueue =>
       timers = IF queuedSync.timeoutID = NoTimer THEN {}
                ELSE {queuedSync.timeoutID}

\* a ChangeSet was handed off by its timer, and a later enqueue has armed the
\* one outstanding timer while that batch is executing
C17_Witness ==
  /\ \E r \in DOMAIN runs : Executing(runs[r])
  /\ queuedSync # NoQueue
  /\ timers = {queuedSync.timeoutID}
  /\ timerCount >= 2

\* C18: within a batch the items are upserted one at a time in the order of
\* the ChangeSet snapshot, which is first-enqueue order (an enqueue keeps what
\* is queued in place and appends): a remote call for an item is issued only
\* after every earlier item of the batch was upserted and its page stored
C18_SequentialInSnapshotOrder ==
  [][/\ (timerCount' # timerCount /\ queuedSync # NoQueue) =>
          /\ Len(queuedSync'.itemIDs) >= Len(queuedSync.itemIDs)
          /\ SubSeq(queuedSync'.itemIDs, 1, Len(queuedSync.itemIDs))
               = queuedSync.itemIDs
     /\ HandOff => /\ runs' # <<>>
                   /\ runs'[Len(runs')].items = queuedSync.itemIDs
     /\ \A r \in DOMAIN runs' : InOrder(runs'[r], storedPage')]_vars

\* the first item of a batch, not the smaller identifier, is upserted and
\* stored, and the second item's upsert has answered
C18_Witness ==
  \E r \in DOMAIN runs :
    /\ Len(runs[r].items) >= 2
    /\ runs[r].items[1] > runs[r].items[2]
    /\ runs[r].step = 2
    /\ runs[r].pc = "sink"
    /\ runs[r].saved = <<runs[r].items[1]>>

\* C19: when the update of the stored page fails with an error other than
\* not-found, no create call is issued for the item, the batch receives the
\* update's error, and the item's result is not stored
C19_UpdateErrorPropagates ==
  \A r \in DOMAIN runs :
    runs[r].updateCode = "error" =>
      LET item == runs[r].items[runs[r].step]
      IN /\ runs[r].createCalls = 0
         /\ runs[r].updateCalls = 1
         /\ runs[r].error = "update"
         /\ runs[r].errors = 1
         /\ runs[r].pc = "after"
         /\ item \notin Range(runs[r].saved)
         /\ storedPage[item] = runs[r].pageID

\* the update of a page that still exists failed with another error
C19_Witness ==
  \E r \in DOMAIN runs :
    /\ runs[r].updateCode = "error"
    /\ runs[r].pageID \in livePages
    /\ runs[r].error = "update"

\* C20: the two notification kinds exclude each other per flag value: with the
\* sync-on-modify flag enabled an added-to-collection notification changes
\* neither ChangeSet, timer nor syncInProgress; with the flag disabled only
\* an added-to-collection notification enqueues
C20_KindsExclusive ==
  [][/\ (prefs.syncOnModifyItems /\ lastNotify' = <<"add", "collection-item">>) =>
          UNCHANGED <<queuedSync, timers, timerCount, awaiting,
                      syncInProgress, runs>>
     /\ (~prefs.syncOnModifyItems /\ timerCount' # timerCount) =>
          lastNotify' = <<"add", "collection-item">>
     /\ (prefs.syncOnModifyItems /\ timerCount' # timerCount) =>
          lastNotify' = <<"modify", "item">>]_vars

\* with the flag enabled, an added-to-collection notification was delivered
\* while a ChangeSet was waiting for its timer
C20_Witness ==
  /\ prefs.syncOnModifyItems
  /\ lastNotify = <<"add", "collection-item">>
  /\ queuedSync # NoQueue
  /\ queuedSync.timeoutID \in timers

====
